---- MODULE Spec2Model ----
(***************************************************************************)
(* Model of the TOPA expert survey: the edge worker (worker/src/index.ts:  *)
(* access-code gate, HMAC session token, vote upsert) and the survey       *)
(* frontend (App.tsx: champion/challenger pairing, local vote history).    *)
(*                                                                         *)
(* Strings are sequences of character codes, so that trimming, splitting,  *)
(* concatenation, JSON text and base64url text are computed, not assumed.  *)
(***************************************************************************)
EXTENDS Integers, Sequences, FiniteSets, Bags, TLC

(***************************************************************************)
(* Character codes used by the program's string handling.                  *)
(***************************************************************************)
ChSpace == 32
ChQuote == 34
ChPlus == 43
ChComma == 44
ChMinus == 45
ChDot == 46
ChSlash == 47
ChColon == 58
ChEquals == 61
ChUnderscore == 95
ChLBrace == 123
ChRBrace == 125

\* "codeHash" and "exp", the two keys of the token payload (index.ts:244)
KeyCodeHash == <<99, 111, 100, 101, 72, 97, 115, 104>>
KeyExp == <<101, 120, 112>>

IsDigit(c) == c >= 48 /\ c <= 57

(***************************************************************************)
(* String.prototype.trim, as used on ALLOWED_ORIGINS entries and on the    *)
(* access code.                                                            *)
(***************************************************************************)
Trim(s) ==
    LET kept == {i \in 1..Len(s) : s[i] # ChSpace}
    IN  IF kept = {} THEN <<>>
        ELSE SubSeq(s, CHOOSE i \in kept : \A j \in kept : i <= j,
                       CHOOSE i \in kept : \A j \in kept : j <= i)

(***************************************************************************)
(* String.prototype.split(sep) for a one-character separator: the list of  *)
(* the pieces between separators ("" splits to one empty piece).            *)
(***************************************************************************)
Split(s, sep) ==
    LET at == {i \in 1..Len(s) : s[i] = sep}
        \* position of the k-th separator; 0 before the first, Len+1 after the last
        pos(k) == IF k = 0 THEN 0
                  ELSE IF k > Cardinality(at) THEN Len(s) + 1
                  ELSE CHOOSE i \in at : Cardinality({j \in at : j <= i}) = k
    IN  [k \in 1..(Cardinality(at) + 1) |-> SubSeq(s, pos(k - 1) + 1, pos(k) - 1)]

(***************************************************************************)
(* Number -> decimal text (JSON.stringify / template literal) and back.    *)
(***************************************************************************)
RECURSIVE ToDigits(_)
ToDigits(n) == IF n < 10 THEN <<48 + n>> ELSE Append(ToDigits(n \div 10), 48 + (n % 10))

RECURSIVE FromDigits(_)
FromDigits(d) ==
    IF d = <<>> THEN 0 ELSE 10 * FromDigits(SubSeq(d, 1, Len(d) - 1)) + (d[Len(d)] - 48)

(***************************************************************************)
(* btoa / atob on byte sequences (standard base64 alphabet).                *)
(***************************************************************************)
B64Char(i) ==
    IF i < 26 THEN 65 + i
    ELSE IF i < 52 THEN 97 + (i - 26)
    ELSE IF i < 62 THEN 48 + (i - 52)
    ELSE IF i = 62 THEN ChPlus ELSE ChSlash

IsB64Char(c) ==
    \/ (c >= 65 /\ c <= 90) \/ (c >= 97 /\ c <= 122) \/ IsDigit(c)
    \/ c = ChPlus \/ c = ChSlash

B64Index(c) ==
    IF c >= 65 /\ c <= 90 THEN c - 65
    ELSE IF c >= 97 /\ c <= 122 THEN c - 97 + 26
    ELSE IF IsDigit(c) THEN c - 48 + 52
    ELSE IF c = ChPlus THEN 62 ELSE 63

\* btoa: every 3 bytes give 4 characters; a final group of 1 or 2 bytes is
\* padded with "="
Btoa(bytes) ==
    LET n == Len(bytes)
        byte(i) == IF i <= n THEN bytes[i] ELSE 0
        char(k) ==
            LET g == 3 * ((k - 1) \div 4)
                b1 == byte(g + 1)
                b2 == byte(g + 2)
                b3 == byte(g + 3)
                q == (k - 1) % 4
            IN  IF q = 0 THEN B64Char(b1 \div 4)
                ELSE IF q = 1 THEN B64Char((b1 % 4) * 16 + b2 \div 16)
                ELSE IF q = 2 THEN (IF g + 2 > n THEN ChEquals
                                    ELSE B64Char((b2 % 16) * 4 + b3 \div 64))
                ELSE (IF g + 3 > n THEN ChEquals ELSE B64Char(b3 % 64))
    IN  [k \in 1..(4 * ((n + 2) \div 3)) |-> char(k)]

\* atob: [ok, bytes]; ok = FALSE stands for the InvalidCharacterError it throws.
\* Forgiving-base64: up to two "=" end a text of whole groups; every 4 data
\* characters give 3 bytes, a final 2 or 3 give 1 or 2, leftover bits dropped
Atob(s) ==
    LET n == Len(s)
        strip == IF n % 4 = 0 /\ n >= 2 /\ s[n] = ChEquals /\ s[n - 1] = ChEquals THEN 2
                 ELSE IF n % 4 = 0 /\ n >= 1 /\ s[n] = ChEquals THEN 1
                 ELSE 0
        len == n - strip
        six(i) == B64Index(s[i])
        byte(m) ==
            LET g == 4 * ((m - 1) \div 3)
                q == (m - 1) % 3
            IN  IF q = 0 THEN six(g + 1) * 4 + six(g + 2) \div 16
                ELSE IF q = 1 THEN (six(g + 2) % 16) * 16 + six(g + 3) \div 4
                ELSE (six(g + 3) % 4) * 64 + six(g + 4)
    IN  IF len % 4 = 1 \/ \E i \in 1..len : ~IsB64Char(s[i])
        THEN [ok |-> FALSE, bytes |-> <<>>]
        ELSE [ok |-> TRUE, bytes |-> [m \in 1..((len * 6) \div 8) |-> byte(m)]]

RECURSIVE StripTrailingEquals(_)
StripTrailingEquals(s) ==
    IF s # <<>> /\ s[Len(s)] = ChEquals
    THEN StripTrailingEquals(SubSeq(s, 1, Len(s) - 1)) ELSE s

ReplaceChar(s, from, to) == [i \in 1..Len(s) |-> IF s[i] = from THEN to ELSE s[i]]

base64UrlEncode(bytes) ==
    StripTrailingEquals(ReplaceChar(ReplaceChar(Btoa(bytes), ChPlus, ChMinus),
                                    ChSlash, ChUnderscore))

(***************************************************************************)
(* JSON text of a token payload.  A payload is {codeHash: string, exp?:    *)
(* number}: codeHash a string, exp a set holding the number, or empty when *)
(* the member is absent/undefined (JSON.stringify omits it).               *)
(***************************************************************************)
Quoted(s) == <<ChQuote>> \o s \o <<ChQuote>>

\* fault: the exp member is not written
JSONStringifyHashOnly(p) ==
    <<ChLBrace>> \o Quoted(KeyCodeHash) \o <<ChColon>> \o Quoted(p.codeHash) \o <<ChRBrace>>

JSONStringify(p) ==
    <<ChLBrace>> \o Quoted(KeyCodeHash) \o <<ChColon>> \o Quoted(p.codeHash)
    \o (IF p.exp = {} THEN <<>>
        ELSE <<ChComma>> \o Quoted(KeyExp) \o <<ChColon>>
             \o ToDigits(CHOOSE n \in p.exp : TRUE))
    \o <<ChRBrace>>

\* index of the first character at or after i that fails the test, Len+1 if none
RECURSIVE ScanToQuote(_, _)
ScanToQuote(t, i) == IF i > Len(t) \/ t[i] = ChQuote THEN i ELSE ScanToQuote(t, i + 1)

RECURSIVE ScanDigits(_, _)
ScanDigits(t, i) == IF i > Len(t) \/ ~IsDigit(t[i]) THEN i ELSE ScanDigits(t, i + 1)

\* the members of a flat JSON object from position i (after "{" or ","):
\* [ok, members], a member being [key, isString, str, num]
RECURSIVE ParseMembers(_, _, _)
ParseMembers(t, i, acc) ==
    LET bad == [ok |-> FALSE, members |-> <<>>]
        k2 == ScanToQuote(t, i + 1)             \* closing quote of the key
        v1 == k2 + 2                            \* first character of the value
    IN  IF i > Len(t) \/ t[i] # ChQuote \/ k2 + 2 > Len(t) \/ t[k2 + 1] # ChColon THEN bad
        ELSE LET key == SubSeq(t, i + 1, k2 - 1)
                 isStr == t[v1] = ChQuote
                 vend == IF isStr THEN ScanToQuote(t, v1 + 1) + 1 ELSE ScanDigits(t, v1)
                 m == [key |-> key, isString |-> isStr,
                       str |-> IF isStr THEN SubSeq(t, v1 + 1, vend - 2) ELSE <<>>,
                       num |-> IF isStr THEN 0 ELSE FromDigits(SubSeq(t, v1, vend - 1))]
             IN  IF vend > Len(t) \/ (~isStr /\ vend = v1) THEN bad
                 ELSE IF t[vend] = ChRBrace
                      THEN IF vend = Len(t) THEN [ok |-> TRUE, members |-> Append(acc, m)]
                           ELSE bad
                 ELSE IF t[vend] = ChComma THEN ParseMembers(t, vend + 1, Append(acc, m))
                 ELSE bad

\* the object of parsed members r, read as a payload: of members with one key
\* the last is the object's
PayloadOf(r) ==
    LET ms == r.members
        hs == {j \in 1..Len(ms) : ms[j].key = KeyCodeHash /\ ms[j].isString}
        es == {j \in 1..Len(ms) : ms[j].key = KeyExp /\ ~ms[j].isString}
    IN  IF ~r.ok \/ hs = {} THEN [ok |-> FALSE, payload |-> [codeHash |-> <<>>, exp |-> {}]]
        ELSE [ok |-> TRUE,
              payload |-> [codeHash |-> ms[CHOOSE j \in hs : \A k \in hs : k <= j].str,
                           exp |-> {ms[j].num : j \in {j \in es : \A k \in es : k <= j}}]]

\* JSON.parse of payload text: [ok, payload]; ok = FALSE stands for SyntaxError
JSONParse(t) ==
    PayloadOf(IF Len(t) >= 2 /\ t[1] = ChLBrace
              THEN ParseMembers(t, 2, <<>>) ELSE [ok |-> FALSE, members |-> <<>>])

\* TextEncoder / TextDecoder: the program's payload text is ASCII, one byte a character
b64Json(obj) == base64UrlEncode(JSONStringify(obj))

\* "===".slice((s.length + 3) % 4)
Padding(n) ==
    LET from == (n + 3) % 4
    IN  [i \in 1..(3 - from) |-> ChEquals]

\* JSON.parse(new TextDecoder().decode(bytes)) of what atob gave
DecodeJson(raw) ==
    IF ~raw.ok THEN [ok |-> FALSE, payload |-> [codeHash |-> <<>>, exp |-> {}]]
    ELSE JSONParse(raw.bytes)

fromB64Json(s) ==
    DecodeJson(Atob(ReplaceChar(ReplaceChar(s, ChMinus, ChPlus), ChUnderscore, ChSlash)
                    \o Padding(Len(s))))

(***************************************************************************)
(* HMAC-SHA256 is a library primitive: it is modelled as an ideal MAC, a   *)
(* digest that is an injective function of (key, data).                     *)
(***************************************************************************)
HmacSha256(secret, data) == secret \o data

hmacSign(secret, data) == base64UrlEncode(HmacSha256(secret, data))

makeToken(secret, payload) ==
    LET body == b64Json(payload)
        sig == hmacSign(secret, body)
    IN  body \o <<ChDot>> \o sig

\* verifyToken: [ok, error, payload]; ok = FALSE stands for the Error thrown
TokenError(error) == [ok |-> FALSE, error |-> error, payload |-> [codeHash |-> <<>>, exp |-> {}]]

\* fault: a token is expired from the instant exp on
verifyPayloadStrict(dec, clock) ==
    IF ~dec.ok THEN TokenError("SyntaxError")
    ELSE IF \E e \in dec.payload.exp : e # 0 /\ clock >= e THEN TokenError("Token expired")
    ELSE [ok |-> TRUE, error |-> "", payload |-> dec.payload]

\* index.ts:79-81: the payload decoded (the decoder's own error, here
\* "SyntaxError", when it throws), its expiry against the clock
verifyPayload(dec, clock) ==
    IF ~dec.ok THEN TokenError("SyntaxError")
    ELSE IF \E e \in dec.payload.exp : e # 0 /\ clock > e THEN TokenError("Token expired")
    ELSE [ok |-> TRUE, error |-> "", payload |-> dec.payload]

\* fault: the signature is not compared
verifySegmentsUnsigned(secret, body, sig, clock) ==
    IF body = <<>> \/ sig = <<>> THEN TokenError("Bad token format")
    ELSE verifyPayload(fromB64Json(body), clock)

\* index.ts:75-78: the two segments, the signature recomputed and compared
verifySegments(secret, body, sig, clock) ==
    IF body = <<>> \/ sig = <<>> THEN TokenError("Bad token format")
    ELSE IF hmacSign(secret, body) # sig THEN TokenError("Bad token signature")
    ELSE verifyPayload(fromB64Json(body), clock)

\* const [body, sig] = token.split("."): a missing sig is undefined, falsy like ""
verifyParts(secret, parts, clock) ==
    verifySegments(secret, parts[1], IF Len(parts) >= 2 THEN parts[2] ELSE <<>>, clock)

verifyToken(secret, token, clock) == verifyParts(secret, Split(token, ChDot), clock)


(***************************************************************************)
(* JavaScript values as they arrive in a JSON body: [t, s, n] with t the   *)
(* type, s the text of a string, n the number (or 0/1 of a boolean).       *)
(***************************************************************************)
JUndef == [t |-> "undefined", s |-> <<>>, n |-> 0]
JNull == [t |-> "null", s |-> <<>>, n |-> 0]
JStr(s) == [t |-> "string", s |-> s, n |-> 0]
JNum(n) == [t |-> "number", s |-> <<>>, n |-> n]

Truthy(v) ==
    \/ v.t = "string" /\ v.s # <<>>
    \/ v.t = "number" /\ v.n # 0
    \/ v.t = "boolean" /\ v.n = 1
    \/ v.t = "object"

\* String(v)
JsString(v) ==
    IF v.t = "string" THEN v.s
    ELSE IF v.t = "number" THEN ToDigits(v.n)
    ELSE IF v.t = "boolean" THEN (IF v.n = 1 THEN <<116, 114, 117, 101>>
                                  ELSE <<102, 97, 108, 115, 101>>)
    ELSE IF v.t = "null" THEN <<110, 117, 108, 108>>
    ELSE IF v.t = "undefined" THEN <<117, 110, 100, 101, 102, 105, 110, 101, 100>>
    ELSE <<91, 111, 98, 106, 101, 99, 116, 32, 79, 98, 106, 101, 99, 116, 93>>

\* Number(v): [nan, n]
JsNumber(v) ==
    IF v.t = "number" \/ v.t = "boolean" THEN [nan |-> FALSE, n |-> v.n]
    ELSE IF v.t = "null" THEN [nan |-> FALSE, n |-> 0]
    ELSE IF v.t = "string" THEN
        LET w == Trim(v.s)
        IN  IF \A i \in 1..Len(w) : IsDigit(w[i])
            THEN [nan |-> FALSE, n |-> FromDigits(w)]
            ELSE [nan |-> TRUE, n |-> 0]
    ELSE [nan |-> TRUE, n |-> 0]

ToLowerCase(s) == [i \in 1..Len(s) |-> IF s[i] >= 65 /\ s[i] <= 90 THEN s[i] + 32 ELSE s[i]]

EndsWith(s, suffix) ==
    Len(s) >= Len(suffix) /\ SubSeq(s, Len(s) - Len(suffix) + 1, Len(s)) = suffix

(***************************************************************************)
(* sha256Hex: SHA-256 is a library primitive, modelled as an ideal hash    *)
(* (the digest an injective function of the text); the hex rendering       *)
(* (toString(16).padStart(2, "0") of every byte, joined) is computed.      *)
(***************************************************************************)
Sha256(s) == s

HexDigit(d) == IF d < 10 THEN 48 + d ELSE 97 + (d - 10)

sha256Hex(s) ==
    LET digest == Sha256(s)
    IN  [i \in 1..(2 * Len(digest)) |->
            IF i % 2 = 1 THEN HexDigit(digest[(i + 1) \div 2] \div 16)
            ELSE HexDigit(digest[i \div 2] % 16)]

(***************************************************************************)
(* CORS (index.ts:7-23).                                                   *)
(***************************************************************************)
\* env.ALLOWED_ORIGINS: " g ,,h"
ALLOWED_ORIGINS == <<32, 103, 32, 44, 44, 104>>

\* .split(",").map((s) => s.trim()).filter(Boolean)
AllowedList ==
    LET pieces == Split(ALLOWED_ORIGINS, ChComma)
    IN  {Trim(pieces[i]) : i \in 1..Len(pieces)} \ {<<>>}

\* fault: any Origin header passes
originPresent(origin) == origin # <<>>

originAllowed(origin) == origin # <<>> /\ origin \in AllowedList

\* cors(origin): the Access-Control-Allow-Origin header it sets
cors(origin) == {origin}

(***************************************************************************)
(* The D1 tables.  access_codes: code_hash -> [active, uses_remaining,     *)
(* expires_at]; a nullable column is a set of at most one value.           *)
(* expires_at text is [t, ms]: t = "date" parses to ms, "bad" to NaN.      *)
(***************************************************************************)
\* SELECT ... FROM access_codes WHERE code_hash = ?  -> {} (null) or {row}
dbGetAccessCode(table, codeHash) ==
    IF codeHash \in DOMAIN table THEN {table[codeHash]} ELSE {}

\* fault: the UPDATE is run a second time
dbDecrementTwice(table, codeHash) ==
    [h \in DOMAIN table |->
        IF h = codeHash /\ \E u \in table[h].uses_remaining : u > 0
        THEN [table[h] EXCEPT !.uses_remaining =
                  {IF u > 1 THEN u - 2 ELSE 0 : u \in table[h].uses_remaining}]
        ELSE table[h]]

\* UPDATE access_codes SET uses_remaining = uses_remaining - 1
\*   WHERE code_hash = ? AND uses_remaining IS NOT NULL AND uses_remaining > 0
dbDecrementUsesRemaining(table, codeHash) ==
    [h \in DOMAIN table |->
        IF h = codeHash /\ \E u \in table[h].uses_remaining : u > 0
        THEN [table[h] EXCEPT !.uses_remaining = {u - 1 : u \in table[h].uses_remaining}]
        ELSE table[h]]

\* fault: a plain INSERT on a table without the primary key
dbInsertVote(table, row) == table \cup {row}

\* INSERT INTO votes ... ON CONFLICT(id) DO UPDATE SET <every column>
dbUpsertVote(table, row) == {r \in table : r.id # row.id} \cup {row}

\* Date.parse: {} for NaN
DateParse(text) == IF text.t = "date" THEN {text.ms} ELSE {}

StrLeft == <<108, 101, 102, 116>>
StrRight == <<114, 105, 103, 104, 116>>

\* fault: what is not left or top is taken as right
normalizePreferredLoose(p) ==
    LET v == Trim(ToLowerCase(p))
    IN  IF v = StrLeft \/ v = <<116, 111, 112>> THEN "left" ELSE "right"

\* normalizePreferred: "left" / "right", or "" for the Error it throws
normalizePreferred(p) ==
    LET v == Trim(ToLowerCase(p))
    IN  IF v = StrLeft \/ v = <<116, 111, 112>> THEN "left"                    \* "top"
        ELSE IF v = StrRight \/ v = <<98, 111, 116, 116, 111, 109>> THEN "right"  \* "bottom"
        ELSE ""

(***************************************************************************)
(* State.                                                                  *)
(*   worker: nowMs (Date.now()), access_codes and votes (the D1 tables),   *)
(*           inflight (the bag of /api/start requests between SELECT and  *)
(*           answer), resp (the last response, with what the handler       *)
(*           read), granted / issued (the 200s of /api/start, and their    *)
(*           tokens with the clock they were made at), seeded (access_codes as first populated), nreq /     *)
(*           nticks (requests that reached the database, clock steps) and  *)
(*           cap (the bounds on them)                                      *)
(*   token round trip: rt                                                  *)
(*   frontend: build (which App.tsx), app (the component's React state),   *)
(*           localStorage, awaiting (the POSTs whose promise the page       *)
(*           awaits), posted (every vote POSTed, in order) and failed       *)
(*           (the votes whose POST was rejected)                            *)
(***************************************************************************)
VARIABLES nowMs, access_codes, seeded, votes, inflight, resp, granted, issued, nreq, nticks,
          cap, rt, build, app, localStorage, awaiting, posted, failed

workerVars ==
    <<nowMs, access_codes, seeded, votes, inflight, resp, granted, issued, nreq, nticks, cap>>
clientVars == <<build, app, localStorage, awaiting, posted, failed>>
vars ==
    <<nowMs, access_codes, seeded, votes, inflight, resp, granted, issued, nreq, nticks, cap,
      rt, build, app, localStorage, awaiting, posted, failed>>

\* 12 * 60 * 60 * 1000 (index.ts:244)
TwelveHours == 43200000

\* env.TOKEN_SECRET of the deployment, and another key (bytes)
TOKEN_SECRET == <<251, 255>>
OtherSecret == <<7, 9>>

\* bounds of the access-code model: /api/start requests that reach the
\* database, clock steps, the largest uses_remaining of a row; and the clock
\* at the start
MaxStarts == 2
MaxTicks == 1
MaxUses == 2
StartMs == 1000

(***************************************************************************)
(* Requests.  A request is [origin, method, path, body]; body is what      *)
(* req.json() gives: t = "malformed" (rejected, the handler takes {}),     *)
(* "null", "scalar" or "object" with the members code, token and vote.     *)
(* A vote is [t, f]: t its type ("undefined", "null", "falsy", "scalar",   *)
(* "object") and f its members.                                            *)
(***************************************************************************)
PathStart == <<47, 97, 112, 105, 47, 115, 116, 97, 114, 116>>      \* "/api/start"
PathVote == <<47, 97, 112, 105, 47, 118, 111, 116, 101>>           \* "/api/vote"

NoFields ==
    [participant_id |-> JUndef, component |-> JUndef, trial_id |-> JUndef,
     left_method_id |-> JUndef, right_method_id |-> JUndef, preferred |-> JUndef,
     timestamp_utc |-> JUndef, user_agent |-> JUndef, page_url |-> JUndef]
NoVote == [t |-> "undefined", f |-> NoFields]
EmptyBody == [t |-> "object", code |-> JUndef, token |-> JUndef, vote |-> NoVote]

\* body.code, body.token, body.vote: undefined on {} and on a scalar
BodyCode(body) == IF body.t = "object" THEN body.code ELSE JUndef
BodyToken(body) == IF body.t = "object" THEN body.token ELSE JUndef
BodyVote(body) == IF body.t = "object" THEN body.vote ELSE NoVote

NoRow ==
    [id |-> <<>>, participant_id |-> <<>>, component |-> <<>>,
     trial_id |-> [nan |-> FALSE, n |-> 0], left_method_id |-> <<>>,
     right_method_id |-> <<>>, preferred |-> "", timestamp_utc |-> <<>>,
     user_agent |-> <<>>, page_url |-> <<>>, received_at |-> 0]

(***************************************************************************)
(* The last response, with what the handler was given and what it read:    *)
(*   route     the branch that answered ("none" before the first response) *)
(*   status, error, token, acao   the response (acao: the                  *)
(*             Access-Control-Allow-Origin header, {} when not set)        *)
(*   threw     the handler threw instead of returning a response           *)
(*   db        the handler ran a statement on the database                 *)
(*   codeIn, doc, checkedAt   /api/start: body.code as received, the row   *)
(*             read, the clock at its checks                               *)
(*   tokenIn, voteIn, at, row, prior   /api/vote: body.token and body.vote *)
(*             as received, the clock, the row written, the rows that had  *)
(*             its id before                                               *)
(***************************************************************************)
NoResp ==
    [route |-> "none", method |-> "", origin |-> <<>>, status |-> 0, error |-> "",
     token |-> <<>>, acao |-> {}, threw |-> FALSE, db |-> FALSE,
     codeIn |-> JUndef, doc |-> {}, checkedAt |-> 0, tokenIn |-> JUndef, voteIn |-> NoVote,
     at |-> 0, row |-> NoRow, prior |-> {}]

Answer(req, route, status, error) ==
    [NoResp EXCEPT !.route = route, !.method = req.method, !.origin = req.origin,
                   !.status = status, !.error = error, !.acao = cors(req.origin)]

\* index.ts:175-197: not OPTIONS, an allowed origin, POST, and the path
Routed(req, path) ==
    /\ req.method # "OPTIONS"
    /\ originAllowed(req.origin)
    /\ req.method = "POST"
    /\ EndsWith(req.path, path)

(***************************************************************************)
(* fetch, index.ts:172-303, one action a branch.                           *)
(***************************************************************************)
Preflight(req) ==
    /\ req.method = "OPTIONS"
    /\ resp' = [Answer(req, "options", 204, "") EXCEPT
                   !.acao = IF originAllowed(req.origin)
                            THEN cors(req.origin) ELSE {}]
    /\ UNCHANGED <<nowMs, access_codes, seeded, votes, inflight, granted, issued, nreq, nticks,
                     cap, rt, clientVars>>

OriginNotAllowed(req) ==
    /\ req.method # "OPTIONS"
    /\ ~originAllowed(req.origin)
    /\ resp' = Answer(req, "origin", 403, "Origin not allowed")
    /\ UNCHANGED <<nowMs, access_codes, seeded, votes, inflight, granted, issued, nreq, nticks,
                     cap, rt, clientVars>>

MethodNotAllowed(req) ==
    /\ req.method # "OPTIONS"
    /\ originAllowed(req.origin)
    /\ req.method # "POST"
    /\ resp' = Answer(req, "method", 405, "Method not allowed")
    /\ UNCHANGED <<nowMs, access_codes, seeded, votes, inflight, granted, issued, nreq, nticks,
                     cap, rt, clientVars>>

NotFound(req) ==
    /\ req.method # "OPTIONS"
    /\ originAllowed(req.origin)
    /\ req.method = "POST"
    /\ ~EndsWith(req.path, PathStart)
    /\ ~EndsWith(req.path, PathVote)
    /\ resp' = Answer(req, "notfound", 404, "Not found")
    /\ UNCHANGED <<nowMs, access_codes, seeded, votes, inflight, granted, issued, nreq, nticks,
                     cap, rt, clientVars>>

\* index.ts:202 / 251: body.code, body.token on a body that is JSON null is
\* a TypeError nothing catches
BodyThrows(req) ==
    /\ \/ Routed(req, PathStart)
       \/ Routed(req, PathVote)
    /\ req.body.t = "null"
    /\ resp' = [NoResp EXCEPT !.route = IF EndsWith(req.path, PathStart)
                                        THEN "start" ELSE "vote",
                              !.method = req.method, !.origin = req.origin,
                              !.threw = TRUE]
    /\ UNCHANGED <<nowMs, access_codes, seeded, votes, inflight, granted, issued, nreq, nticks,
                     cap, rt, clientVars>>

\* String(body.code || "").trim()
CodeOf(body) ==
    LET c == BodyCode(body)
    IN  Trim(JsString(IF Truthy(c) THEN c ELSE JStr(<<>>)))

\* index.ts:200-205
StartMissingCode(req) ==
    /\ Routed(req, PathStart)
    /\ req.body.t # "null"
    /\ CodeOf(req.body) = <<>>
    /\ resp' = [Answer(req, "start", 400, "Missing code") EXCEPT !.codeIn = BodyCode(req.body)]
    /\ UNCHANGED <<nowMs, access_codes, seeded, votes, inflight, granted, issued, nreq, nticks,
                     cap, rt, clientVars>>

\* index.ts:207-209: the SELECT of dbGetAccessCode runs
StartSelect(req) ==
    /\ Routed(req, PathStart)
    /\ req.body.t # "null"
    /\ CodeOf(req.body) # <<>>
    /\ nreq < cap.starts
    /\ nreq' = nreq + 1
    /\ LET codeHash == sha256Hex(CodeOf(req.body))
       IN  inflight' = inflight (+) SetToBag(
               {[pc |-> "check", origin |-> req.origin, codeIn |-> BodyCode(req.body),
                 codeHash |-> codeHash, doc |-> dbGetAccessCode(access_codes, codeHash),
                 checkedAt |-> 0]})
    /\ UNCHANGED <<nowMs, access_codes, seeded, votes, resp, granted, issued, nticks,
                     cap, rt, clientVars>>

\* fault: the active column is not checked
StartCheckErrorNoActive(doc, clock) ==
    IF doc = {} THEN "Invalid code"
    ELSE LET d == CHOOSE r \in doc : TRUE
         IN  IF \E u \in d.uses_remaining : u <= 0 THEN "Code has no remaining uses"
             ELSE IF d.expires_at.t \in {"null", "empty"} THEN ""
             ELSE IF DateParse(d.expires_at) = {} THEN "Bad expires_at format in DB"
             ELSE IF \E e \in DateParse(d.expires_at) : clock > e THEN "Code expired"
             ELSE ""

\* fault: expires_at is looked at before uses_remaining
StartCheckErrorExpiryFirst(doc, clock) ==
    IF doc = {} THEN "Invalid code"
    ELSE LET d == CHOOSE r \in doc : TRUE
         IN  IF d.active # 1 THEN "Code inactive"
             ELSE IF d.expires_at.t = "bad" THEN "Bad expires_at format in DB"
             ELSE IF \E e \in DateParse(d.expires_at) : clock > e THEN "Code expired"
             ELSE IF \E u \in d.uses_remaining : u <= 0 THEN "Code has no remaining uses"
             ELSE ""

\* index.ts:210-237: the first failing check of the row read, "" when all pass
StartCheckError(doc, clock) ==
    IF doc = {} THEN "Invalid code"
    ELSE LET d == CHOOSE r \in doc : TRUE
         IN  IF d.active # 1 THEN "Code inactive"
             ELSE IF \E u \in d.uses_remaining : u <= 0 THEN "Code has no remaining uses"
             ELSE IF d.expires_at.t \in {"null", "empty"} THEN ""
             ELSE IF DateParse(d.expires_at) = {} THEN "Bad expires_at format in DB"
             ELSE IF \E e \in DateParse(d.expires_at) : clock > e THEN "Code expired"
             ELSE ""

\* fault: the UPDATE runs before the checks
StartCheckDecrementFirst(f) ==
    /\ BagIn(f, inflight)
    /\ f.pc = "check"
    /\ access_codes' = dbDecrementUsesRemaining(access_codes, f.codeHash)
    /\ LET err == StartCheckError(f.doc, nowMs)
           req == [method |-> "POST", origin |-> f.origin]
       IN  IF err # ""
           THEN /\ resp' = [Answer(req, "start",
                                   IF err = "Bad expires_at format in DB" THEN 500 ELSE 403,
                                   err)
                            EXCEPT !.db = TRUE, !.codeIn = f.codeIn, !.doc = f.doc,
                                   !.checkedAt = nowMs]
                /\ inflight' = inflight (-) SetToBag({f})
           ELSE /\ inflight' = (inflight (-) SetToBag({f})) (+)
                        SetToBag({[f EXCEPT !.pc = "finish", !.checkedAt = nowMs]})
                /\ UNCHANGED resp
    /\ UNCHANGED <<nowMs, seeded, votes, granted, issued, nreq, nticks,
                     cap, rt, clientVars>>

StartCheck(f) ==
    /\ BagIn(f, inflight)
    /\ f.pc = "check"
    /\ LET err == StartCheckError(f.doc, nowMs)
           req == [method |-> "POST", origin |-> f.origin]
       IN  IF err # ""
           THEN /\ resp' = [Answer(req, "start",
                                   IF err = "Bad expires_at format in DB" THEN 500 ELSE 403,
                                   err)
                            EXCEPT !.db = TRUE, !.codeIn = f.codeIn, !.doc = f.doc,
                                   !.checkedAt = nowMs]
                /\ inflight' = inflight (-) SetToBag({f})
           ELSE /\ inflight' = (inflight (-) SetToBag({f})) (+)
                        SetToBag({[f EXCEPT !.pc = "finish", !.checkedAt = nowMs]})
                /\ UNCHANGED resp
    /\ UNCHANGED <<nowMs, access_codes, seeded, votes, granted, issued, nreq, nticks,
                     cap, rt, clientVars>>

\* index.ts:239-245: the UPDATE of dbDecrementUsesRemaining when the row read
\* has a uses_remaining, then the token and the 200
StartFinish(f) ==
    /\ BagIn(f, inflight)
    /\ f.pc = "finish"
    /\ LET d == CHOOSE r \in f.doc : TRUE
           token == makeToken(TOKEN_SECRET,
                              [codeHash |-> f.codeHash, exp |-> {nowMs + TwelveHours}])
       IN  /\ access_codes' = IF d.uses_remaining # {}
                              THEN dbDecrementUsesRemaining(access_codes, f.codeHash)
                              ELSE access_codes
           /\ resp' = [Answer([method |-> "POST", origin |-> f.origin], "start", 200, "")
                       EXCEPT !.token = token, !.db = TRUE, !.codeIn = f.codeIn,
                              !.doc = f.doc, !.checkedAt = f.checkedAt]
           /\ issued' = issued \cup {[token |-> token, at |-> nowMs]}
    /\ granted' = granted + 1
    /\ inflight' = inflight (-) SetToBag({f})
    /\ UNCHANGED <<nowMs, seeded, votes, nreq, nticks,
                     cap, rt, clientVars>>

(***************************************************************************)
(* POST /api/vote, index.ts:249-300, as a function of the request, the     *)
(* votes table and the clock: [status, error, votes, row, prior].          *)
(***************************************************************************)
\* the required fields in order, each with its `Missing field: ${k}`
Required ==
    <<[k |-> "participant_id", error |-> "Missing field: participant_id"],
      [k |-> "component", error |-> "Missing field: component"],
      [k |-> "trial_id", error |-> "Missing field: trial_id"],
      [k |-> "left_method_id", error |-> "Missing field: left_method_id"],
      [k |-> "right_method_id", error |-> "Missing field: right_method_id"],
      [k |-> "preferred", error |-> "Missing field: preferred"],
      [k |-> "timestamp_utc", error |-> "Missing field: timestamp_utc"]>>

\* vote[k] === undefined || vote[k] === null || vote[k] === ""
FieldMissing(v) == v.t = "undefined" \/ v.t = "null" \/ (v.t = "string" /\ v.s = <<>>)

\* `${participant}__${component}__${trial}`, trial a Number ("NaN" when it is)
DocId(participant, component, trial) ==
    participant \o <<ChUnderscore, ChUnderscore>> \o component
    \o <<ChUnderscore, ChUnderscore>>
    \o (IF trial.nan THEN <<78, 97, 78>> ELSE ToDigits(trial.n))

VoteRow(f, preferred, clock) ==
    [id |-> DocId(JsString(f.participant_id), JsString(f.component), JsNumber(f.trial_id)),
     participant_id |-> JsString(f.participant_id),
     component |-> JsString(f.component),
     trial_id |-> JsNumber(f.trial_id),
     left_method_id |-> JsString(f.left_method_id),
     right_method_id |-> JsString(f.right_method_id),
     preferred |-> preferred,
     timestamp_utc |-> JsString(f.timestamp_utc),
     user_agent |-> JsString(IF Truthy(f.user_agent) THEN f.user_agent ELSE JStr(<<>>)),
     page_url |-> JsString(IF Truthy(f.page_url) THEN f.page_url ELSE JStr(<<>>)),
     received_at |-> clock]

\* String(body.token || "")
TokenOf(body) ==
    LET t == BodyToken(body)
    IN  JsString(IF Truthy(t) THEN t ELSE JStr(<<>>))

voteReject(status, error, table) ==
    [status |-> status, error |-> error, votes |-> table, row |-> NoRow, prior |-> {}]

\* index.ts:282-298: the row built and upserted
voteStore(row, table) ==
    [status |-> 200, error |-> "", votes |-> dbUpsertVote(table, row), row |-> row,
     prior |-> {r \in table : r.id = row.id}]

\* fault: the row is written before preferred is looked at
votePreferredStoredFirst(f, preferred, table, clock) ==
    IF preferred = ""
    THEN [voteReject(400, "preferred must be one of: left/right (or top/bottom)", table)
             EXCEPT !.votes = dbUpsertVote(table, VoteRow(f, preferred, clock))]
    ELSE voteStore(VoteRow(f, preferred, clock), table)

\* index.ts:271-276: normalizePreferred, its Error answered with 400
votePreferred(f, preferred, table, clock) ==
    IF preferred = ""
    THEN voteReject(400, "preferred must be one of: left/right (or top/bottom)", table)
    ELSE voteStore(VoteRow(f, preferred, clock), table)

\* fault: the required fields are looked at before the token's verdict
voteVerifiedFieldsFirst(v, f, table, clock) ==
    LET missing == {i \in 1..Len(Required) : FieldMissing(f[Required[i].k])}
    IN  IF missing # {}
        THEN voteReject(400, Required[CHOOSE i \in missing : \A j \in missing : i <= j].error,
                        table)
        ELSE IF ~v.ok THEN voteReject(403, v.error, table)
        ELSE votePreferred(f, normalizePreferred(JsString(f.preferred)), table, clock)

\* index.ts:258-269: the token's verdict v, then the first required field missing
voteVerified(v, f, table, clock) ==
    LET missing == {i \in 1..Len(Required) : FieldMissing(f[Required[i].k])}
    IN  IF ~v.ok THEN voteReject(403, v.error, table)
        ELSE IF missing # {}
        THEN voteReject(400, Required[CHOOSE i \in missing : \A j \in missing : i <= j].error,
                        table)
        ELSE votePreferred(f, normalizePreferred(JsString(f.preferred)), table, clock)

\* index.ts:251-256: token and vote of the body, both required
voteChecked(token, vote, table, clock) ==
    IF token = <<>> \/ vote.t \in {"undefined", "null", "falsy"}
    THEN voteReject(400, "Missing token or vote", table)
    ELSE voteVerified(verifyToken(TOKEN_SECRET, token, clock), vote.f, table, clock)

voteHandler(body, table, clock) == voteChecked(TokenOf(body), BodyVote(body), table, clock)

Vote(req) ==
    /\ Routed(req, PathVote)
    /\ ~EndsWith(req.path, PathStart)
    /\ req.body.t # "null"
    /\ \E out \in {voteHandler(req.body, votes, nowMs)} :
           /\ votes' = out.votes
           /\ resp' = [Answer(req, "vote", out.status, out.error) EXCEPT
                          !.db = (out.status = 200), !.tokenIn = BodyToken(req.body),
                          !.voteIn = BodyVote(req.body), !.at = nowMs,
                          !.row = out.row, !.prior = out.prior]
    /\ UNCHANGED <<nowMs, access_codes, seeded, inflight, granted, issued, nreq, nticks,
                     cap, rt, clientVars>>

\* the clock moves on
Tick(d) ==
    /\ nticks < cap.ticks
    /\ nticks' = nticks + 1
    /\ nowMs' = nowMs + d
    /\ UNCHANGED <<access_codes, seeded, votes, inflight, resp, granted, issued, nreq,
                     cap, rt, clientVars>>

(***************************************************************************)
(* The worker's requests and rows of the model.                            *)
(***************************************************************************)
OriginGood == <<103>>                 \* "g", an entry of ALLOWED_ORIGINS

CodeKnown == <<55>>                   \* the access code "7"
KnownHash == sha256Hex(CodeKnown)

Rows ==
    [active : {0, 1},
     uses_remaining : {{}} \cup {{u} : u \in 0..MaxUses},
     expires_at : {[t |-> "null", ms |-> 0], [t |-> "empty", ms |-> 0],
                   [t |-> "bad", ms |-> 0], [t |-> "date", ms |-> StartMs],
                   [t |-> "date", ms |-> StartMs + 1]}]

GoodRow == [active |-> 1, uses_remaining |-> {}, expires_at |-> [t |-> "null", ms |-> 0]]

CodeBody == [EmptyBody EXCEPT !.code = JStr(CodeKnown)]

RoutingRequests ==
    \* no Origin; "g"; "e", not an entry; " g ", an entry before it is trimmed
    [origin : {<<>>, OriginGood, <<101>>, <<32, 103, 32>>},
     method : {"OPTIONS", "GET", "POST"},
     path : {PathStart, PathVote, <<47, 120>>},                  \* "/x"
     body : {CodeBody}]

StartRequests ==
    [origin : {OriginGood}, method : {"POST"}, path : {PathStart},
     body : {[EmptyBody EXCEPT !.t = "malformed"], [EmptyBody EXCEPT !.t = "null"],
             [EmptyBody EXCEPT !.t = "scalar"]}
            \cup {[EmptyBody EXCEPT !.code = c] :
                     c \in {JUndef, JNull, JStr(<<ChSpace>>), JNum(0), JStr(CodeKnown),
                            JStr(<<ChSpace, 55, ChSpace>>), JNum(7), JStr(<<122>>)}}]
    \cup {[origin |-> OriginGood, method |-> "POST", path |-> <<47, 118>> \o PathStart,
           body |-> CodeBody]}                                   \* "/v/api/start"

(***************************************************************************)
(* The /api/vote requests of the model: the tokens a client can send once  *)
(* it holds the issued ones, and the votes.                                 *)
(***************************************************************************)
\* a vote of participant "p" on component "a", methods "m" and "n", at "t"
VoteFields(trial, preferred) ==
    [participant_id |-> JStr(<<112>>), component |-> JStr(<<97>>), trial_id |-> trial,
     left_method_id |-> JStr(<<109>>), right_method_id |-> JStr(<<110>>),
     preferred |-> preferred, timestamp_utc |-> JStr(<<116>>),
     user_agent |-> JUndef, page_url |-> JNull]

BaseFields == VoteFields(JNum(1), JStr(StrLeft))

ValidVotes ==
    {[t |-> "object", f |-> f] :
        f \in {BaseFields,
               VoteFields(JStr(<<49>>),                          \* trial "1", " BOttom "
                          JStr(<<ChSpace, 66, 79, 116, 116, 111, 109, ChSpace>>)),
               VoteFields(JNum(2), JStr(<<82>> \o Tail(StrRight)))}}          \* "Right"

InvalidVotes ==
    {[t |-> "object", f |-> f] :
        f \in {[BaseFields EXCEPT !.participant_id = JUndef],
               [BaseFields EXCEPT !.trial_id = JStr(<<>>)],
               [BaseFields EXCEPT !.right_method_id = JNull],
               [BaseFields EXCEPT !.preferred = JStr(<<117, 112>>)],          \* "up"
               [BaseFields EXCEPT !.component = JNull, !.preferred = JStr(<<117, 112>>)]}}
    \cup {[t |-> k, f |-> NoFields] : k \in {"undefined", "null", "falsy", "scalar"}}

\* what can be made of an issued token without the secret
TokenVariants(token) ==
    LET parts == Split(token, ChDot)
        body == parts[1]
        sig == parts[2]
        forged == b64Json([codeHash |-> KnownHash, exp |-> {StartMs + 3 * TwelveHours}])
    IN  {token,                                         \* as issued
         body,                                          \* no signature segment
         body \o <<ChDot>>,                             \* an empty signature segment
         <<ChDot>> \o sig,                              \* an empty body segment
         forged \o <<ChDot>> \o sig,                    \* the body altered
         body \o <<ChDot>> \o hmacSign(OtherSecret, body),   \* the signature altered
         token \o <<ChDot, 120>>}                       \* a third segment

VoteRequests(tokens) ==
    LET sent == {JUndef, JStr(<<>>), JNum(5)}
                \cup {JStr(v) : v \in UNION {TokenVariants(t) : t \in tokens}}
    IN  [origin : {OriginGood}, method : {"POST"}, path : {PathVote},
         body : {[EmptyBody EXCEPT !.token = JStr(t), !.vote = v] :
                    t \in tokens, v \in ValidVotes \cup InvalidVotes}
                \cup {[EmptyBody EXCEPT !.token = t, !.vote = v] :
                        t \in sent, v \in {[t |-> "object", f |-> BaseFields], NoVote}}
                \cup {[EmptyBody EXCEPT !.t = k] : k \in {"malformed", "null", "scalar"}}]

WorkerInit(rows, starts, ticks) ==
    /\ nowMs = StartMs
    /\ access_codes \in [{KnownHash} -> rows]
    /\ seeded = access_codes
    /\ votes = {}
    /\ inflight = EmptyBag
    /\ resp = NoResp
    /\ granted = 0
    /\ issued = {}
    /\ nreq = 0
    /\ nticks = 0
    /\ cap = [starts |-> starts, ticks |-> ticks]

fetch(req) ==
    \/ Preflight(req)
    \/ OriginNotAllowed(req)
    \/ MethodNotAllowed(req)
    \/ NotFound(req)
    \/ BodyThrows(req)
    \/ StartMissingCode(req)
    \/ StartSelect(req)
    \/ Vote(req)

(***************************************************************************)
(* 32-bit integers of the frontend's pseudo-random numbers (App.tsx        *)
(* hash32, mulberry32): a value is [hi, lo], its two 16-bit halves, and     *)
(* every operation is taken modulo 2^32 as Math.imul, ^, | and >>> do.      *)
(***************************************************************************)
U32(hi, lo) == [hi |-> hi, lo |-> lo]
U32s == [hi : 0..65535, lo : 0..65535]

RECURSIVE BitXor(_, _)
BitXor(a, b) ==
    IF a = 0 THEN b ELSE IF b = 0 THEN a
    ELSE ((a + b) % 2) + 2 * BitXor(a \div 2, b \div 2)

RECURSIVE BitOr(_, _)
BitOr(a, b) ==
    IF a = 0 THEN b ELSE IF b = 0 THEN a
    ELSE (IF a % 2 = 1 \/ b % 2 = 1 THEN 1 ELSE 0) + 2 * BitOr(a \div 2, b \div 2)

\* x ^ y, x | y, x + y
Xor32 == [x \in U32s, y \in U32s |-> U32(BitXor(x.hi, y.hi), BitXor(x.lo, y.lo))]
Or32 == [x \in U32s, y \in U32s |-> U32(BitOr(x.hi, y.hi), BitOr(x.lo, y.lo))]
Add32 ==
    [x \in U32s, y \in U32s |->
        U32((x.hi + y.hi + (x.lo + y.lo) \div 65536) % 65536, (x.lo + y.lo) % 65536)]

\* x >>> k, 0 < k < 16
Shr32 ==
    [x \in U32s, k \in 1..15 |->
        U32(x.hi \div (2 ^ k), x.lo \div (2 ^ k) + (x.hi % (2 ^ k)) * (2 ^ (16 - k)))]

\* the 32-bit product of two 16-bit numbers, b taken a byte at a time
Mul16(a, b) ==
    LET high == a * (b \div 256)
        low == a * (b % 256)
    IN  U32(high \div 256 + ((high % 256) * 256 + low) \div 65536,
            ((high % 256) * 256 + low) % 65536)

\* Math.imul(x, y)
Imul ==
    [x \in U32s, y \in U32s |->
        U32((Mul16(x.lo, y.lo).hi + Mul16(x.hi, y.lo).lo + Mul16(x.lo, y.hi).lo) % 65536,
            Mul16(x.lo, y.lo).lo)]

\* Math.floor((u / 4294967296) * n) for a small n
FloorScale(u, n) == (u.hi * n + (u.lo * n) \div 65536) \div 65536

\* hash32: FNV-1a from 2166136261 (0x811C9DC5) with prime 16777619 (0x01000193)
RECURSIVE Hash32From(_, _, _)
Hash32From(s, i, h) ==
    IF i > Len(s) THEN h
    ELSE Hash32From(s, i + 1, Imul[Xor32[h, U32(0, s[i])], U32(256, 403)])

hash32(s) == Hash32From(s, 1, U32(33052, 40389))

\* mulberry32: the seed after seed += 0x6d2b79f5, and the number returned for
\* that seed, as the 32-bit numerator of the fraction
MulberrySeed(seed) == Add32[seed, U32(27947, 31221)]

\* t ^= t + Math.imul(t ^ (t >>> 7), t | 61); (t ^ (t >>> 14)) >>> 0
MulberryMix(t) ==
    LET u == Xor32[t, Add32[t, Imul[Xor32[t, Shr32[t, 7]], Or32[t, U32(0, 61)]]]]
    IN  Xor32[u, Shr32[u, 14]]

mulberry32(seed) == MulberryMix(Imul[Xor32[seed, Shr32[seed, 15]], Or32[seed, U32(0, 1)]])

\* the loop of stableShuffle from index i (0-based) down to 1, seed the
\* generator's seed before the call of rnd()
RECURSIVE ShuffleFrom(_, _, _)
ShuffleFrom(a, i, seed) ==
    IF i <= 0 THEN a
    ELSE LET j == FloorScale(mulberry32(MulberrySeed(seed)), i + 1) + 1
         IN  ShuffleFrom([a EXCEPT ![i + 1] = a[j], ![j] = a[i + 1]], i - 1, MulberrySeed(seed))

stableShuffle(arr, seedStr) == ShuffleFrom(arr, Len(arr) - 1, hash32(seedStr))

(***************************************************************************)
(* nextPair, App.tsx.  A vote of the history is [participant_id,           *)
(* component, trial_id, left_method_id, right_method_id, preferred]; the   *)
(* pair is <<left, right>>, or <<>> for null.                              *)
(***************************************************************************)
RowsOf(pid, component, history) ==
    SelectSeq(history, LAMBDA r : r.participant_id = pid /\ r.component = component)

\* Array.prototype.sort by trial_id, stable: r goes after the rows not above it
RECURSIVE InsertByTrial(_, _)
InsertByTrial(sorted, r) ==
    IF sorted = <<>> \/ sorted[Len(sorted)].trial_id <= r.trial_id THEN Append(sorted, r)
    ELSE Append(InsertByTrial(SubSeq(sorted, 1, Len(sorted) - 1), r), sorted[Len(sorted)])

RECURSIVE SortByTrial(_)
SortByTrial(rows) ==
    IF rows = <<>> THEN <<>>
    ELSE InsertByTrial(SortByTrial(SubSeq(rows, 1, Len(rows) - 1)), rows[Len(rows)])

\* fault: the method not preferred is kept
ChampionOfLoser(last) ==
    IF last.preferred = "left" THEN last.right_method_id ELSE last.left_method_id

Champion(last) ==
    IF last.preferred = "left" THEN last.left_method_id ELSE last.right_method_id

Appeared(rows) ==
    {rows[i].left_method_id : i \in 1..Len(rows)}
    \cup {rows[i].right_method_id : i \in 1..Len(rows)}

\* fault: a method already compared may come back as a challenger
UnseenButChampion(methodIds, appeared, champion) ==
    SelectSeq(methodIds, LAMBDA m : m # champion)

Unseen(methodIds, appeared, champion) ==
    SelectSeq(methodIds, LAMBDA m : m \notin appeared /\ m # champion)

\* [champion, unseen[k]] (k from 0), null when nothing is unseen
PairFrom(champion, unseen, k) ==
    IF unseen = <<>> THEN <<>> ELSE <<champion, unseen[k + 1]>>

\* the challenger is unseen[Math.floor(rnd() * unseen.length)], rnd seeded by
\* `${pid}::${component}::${appeared.size}`
ChampionPair(pid, component, champion, appeared, unseen) ==
    PairFrom(champion, unseen,
             FloorScale(mulberry32(MulberrySeed(hash32(
                            pid \o <<ChColon, ChColon>> \o component \o <<ChColon, ChColon>>
                            \o ToDigits(Cardinality(appeared))))),
                        Len(unseen)))

\* the first pair is the head of stableShuffle(methodIds, `${pid}::${component}`)
PairOfRows(pid, component, methodIds, rows) ==
    IF rows = <<>>
    THEN SubSeq(stableShuffle(methodIds, pid \o <<ChColon, ChColon>> \o component), 1, 2)
    ELSE ChampionPair(pid, component, Champion(rows[Len(rows)]), Appeared(rows),
                      Unseen(methodIds, Appeared(rows), Champion(rows[Len(rows)])))

\* part_001:79-106
nextPair(pid, component, methodIds, history) ==
    IF pid = <<>> \/ Len(methodIds) < 2 THEN <<>>
    ELSE PairOfRows(pid, component, methodIds, SortByTrial(RowsOf(pid, component, history)))

\* unseen[rows.length % unseen.length]
LegacyChampionPair(champion, unseen, n) ==
    PairFrom(champion, unseen, IF unseen = <<>> THEN 0 ELSE n % Len(unseen))

LegacyPairOfRows(methodIds, rows) ==
    IF rows = <<>> THEN <<methodIds[1], methodIds[2]>>
    ELSE LegacyChampionPair(Champion(rows[Len(rows)]),
                            Unseen(methodIds, Appeared(rows), Champion(rows[Len(rows)])),
                            Len(rows))

\* part_000:27-44, the earlier App.tsx: no shuffle, the rows in history order
nextPairLegacy(pid, component, methodIds, history) ==
    IF Len(methodIds) < 2 THEN <<>>
    ELSE LegacyPairOfRows(methodIds, RowsOf(pid, component, history))

(***************************************************************************)
(* The survey page.  build is the App.tsx served ("part_000", the earlier  *)
(* one, or "part_001"); app is its React state; a string that is "",       *)
(* undefined or null is <<>>.                                              *)
(***************************************************************************)
\* manifest.components, manifest.methods and the components of each method's data
Components == <<<<65>>, <<66>>>>                              \* "A", "B"
Methods == <<<<97>>, <<98>>, <<99>>, <<100>>>>                \* "a", "b", "c", "d"
DataOf(method) == IF method \in {<<97>>, <<98>>} THEN {<<65>>, <<66>>} ELSE {<<65>>}

\* the token of a granted /api/start, the participant ids Math.random can draw
\* or the participant can type, and String(undefined)
GrantedToken == <<116>>
ParticipantIds == {<<80, 49>>, <<80, 50>>}
StrUndefined == <<117, 110, 100, 101, 102, 105, 110, 101, 100>>

\* votes a page may add to the history
MaxHistory == 3

methodIds(component) ==
    IF component = <<>> THEN <<>>
    ELSE SelectSeq(Methods, LAMBDA m : component \in DataOf(m))

PairFor(b, pid, component, history) ==
    IF b = "part_000" THEN nextPairLegacy(pid, component, methodIds(component), history)
    ELSE nextPair(pid, component, methodIds(component), history)

\* const pair = useMemo(() => nextPair(participantId, activeComponent, methodIds, history))
pair == PairFor(build, app.participantId, app.activeComponent, app.history)

\* part_001:428-433: { seen, total } of the participant on the active component
progress ==
    [seen |-> Len(RowsOf(app.participantId, app.activeComponent, app.history)),
     total |-> IF Len(methodIds(app.activeComponent)) - 1 > 0
               THEN Len(methodIds(app.activeComponent)) - 1 ELSE 0]

\* the gate: part_000 `!token`, part_001 `!token || !participantId`
Gate ==
    IF build = "part_000" THEN app.token = <<>>
    ELSE app.token = <<>> \/ app.participantId = <<>>

\* fault: the stored votes are not read back
MountNoVotes(b, storage, drawn) ==
    [token |-> storage.token,
     participantId |-> IF b = "part_000" /\ storage.pid = <<>> THEN drawn ELSE storage.pid,
     activeComponent |-> Components[1],
     history |-> <<>>,
     submitting |-> FALSE]

\* the useState initialisers on the stored items, then the data loaded:
\* part_000:50-63, part_001:370-380
Mount(b, storage, drawn) ==
    [token |-> storage.token,
     participantId |-> IF b = "part_000" /\ storage.pid = <<>> THEN drawn ELSE storage.pid,
     activeComponent |-> Components[1],
     history |-> storage.votes,
     submitting |-> FALSE]

\* part_000:65: useEffect(() => localStorage.setItem("pid", participantId))
StoredBy(b, storage, state) ==
    IF b = "part_000" THEN [storage EXCEPT !.pid = state.participantId] ELSE storage

\* what a page awaits: [kind, vote], the POST of /api/start or of a vote
StartPost ==
    [kind |-> "start",
     vote |-> [participant_id |-> <<>>, component |-> <<>>, trial_id |-> 0,
               left_method_id |-> <<>>, right_method_id |-> <<>>, preferred |-> ""]]

EmptyStorage == [token |-> <<>>, pid |-> <<>>, votes |-> <<>>]

ClientInit ==
    /\ build \in {"part_000", "part_001"}
    /\ \E drawn \in ParticipantIds :
           /\ app = Mount(build, EmptyStorage, drawn)
           /\ localStorage = StoredBy(build, EmptyStorage, app)
    /\ awaiting = {}
    /\ posted = <<>>
    /\ failed = {}

ClientIdle ==
    /\ build = "part_001"
    /\ app = Mount(build, EmptyStorage, <<>>)
    /\ localStorage = EmptyStorage
    /\ awaiting = {}
    /\ posted = <<>>
    /\ failed = {}

\* the page is loaded again: the state is read back from localStorage, and
\* the promises of the page that was are gone
Reload ==
    /\ \E drawn \in ParticipantIds :
           /\ app' = Mount(build, localStorage, drawn)
           /\ localStorage' = StoredBy(build, localStorage, app')
    /\ awaiting' = {}
    /\ UNCHANGED <<build, posted, failed, workerVars, rt>>

\* startSurvey up to its await (part_000:102-105, part_001:435-438); the
\* Start button is on the gate, disabled={!code || submitting} in part_001
startSurvey ==
    /\ Gate
    /\ build = "part_001" => ~app.submitting
    /\ StartPost \notin awaiting
    /\ awaiting' = awaiting \cup {StartPost}
    /\ app' = IF build = "part_001" THEN [app EXCEPT !.submitting = TRUE] ELSE app
    /\ UNCHANGED <<build, localStorage, posted, failed, workerVars, rt>>

\* the POST of /api/start answers: 200 with {token} (index.ts:245), or not
\* (part_000:105-111, part_001:439-452).  res.participant_id is undefined.
startSettled(ok) ==
    /\ StartPost \in awaiting
    /\ awaiting' = awaiting \ {StartPost}
    /\ IF ok
       THEN IF build = "part_001"
            THEN /\ localStorage' = [localStorage EXCEPT !.token = GrantedToken,
                                                         !.pid = StrUndefined]
                 /\ app' = [app EXCEPT !.token = GrantedToken, !.participantId = <<>>,
                                       !.submitting = FALSE]
            ELSE /\ localStorage' = [localStorage EXCEPT !.token = GrantedToken]
                 /\ app' = [app EXCEPT !.token = GrantedToken]
       ELSE /\ app' = IF build = "part_001" THEN [app EXCEPT !.submitting = FALSE] ELSE app
            /\ UNCHANGED localStorage
    /\ UNCHANGED <<build, posted, failed, workerVars, rt>>

\* part_000:166-178, part_001:573: the component tabs / select
selectComponent(c) ==
    /\ ~Gate
    /\ app' = [app EXCEPT !.activeComponent = c]
    /\ UNCHANGED <<build, localStorage, awaiting, posted, failed, workerVars, rt>>

\* part_000:155: the Participant ID input of the earlier page
editParticipant(p) ==
    /\ build = "part_000"
    /\ ~Gate
    /\ app' = [app EXCEPT !.participantId = p]
    /\ localStorage' = [localStorage EXCEPT !.pid = p]
    /\ UNCHANGED <<build, awaiting, posted, failed, workerVars, rt>>

\* history.filter(participant).reduce(max trial_id, 0) + 1
RECURSIVE MaxTrial(_, _, _)
MaxTrial(pid, history, mx) ==
    IF history = <<>> THEN mx
    ELSE MaxTrial(pid, Tail(history),
                  IF Head(history).participant_id = pid /\ Head(history).trial_id > mx
                  THEN Head(history).trial_id ELSE mx)

\* the vote built by a click; its timestamp_utc, user_agent and page_url, which
\* no pairing and no guard reads, are left out
voteObj(preferred) ==
    [participant_id |-> app.participantId, component |-> app.activeComponent,
     trial_id |-> MaxTrial(app.participantId, app.history, 0) + 1,
     left_method_id |-> pair[1], right_method_id |-> pair[2],
     preferred |-> preferred]

\* a click on Prefer LEFT / Prefer RIGHT, up to the await of the POST
\* (part_000:114-134, part_001:455-480), and the effect that stores the history
vote(preferred) ==
    /\ ~Gate
    /\ build = "part_001" => ~app.submitting
    /\ pair # <<>>
    /\ build = "part_001" => app.token # <<>> /\ app.participantId # <<>>
    /\ Len(app.history) < MaxHistory
    /\ \E v \in {voteObj(preferred)} :
           /\ app' = [app EXCEPT !.history = Append(@, v),
                                 !.submitting = IF build = "part_001" THEN TRUE ELSE @]
           /\ localStorage' = [localStorage EXCEPT !.votes = Append(app.history, v)]
           /\ awaiting' = awaiting \cup {[kind |-> "vote", vote |-> v]}
           /\ posted' = Append(posted, v)
    /\ UNCHANGED <<build, failed, workerVars, rt>>

\* fault: a failed POST is sent again
voteSettledRetry(w, ok) ==
    /\ w \in awaiting
    /\ w.kind = "vote"
    /\ awaiting' = IF ok THEN awaiting \ {w} ELSE awaiting
    /\ posted' = IF ok THEN posted ELSE Append(posted, w.vote)
    /\ failed' = IF ok THEN failed ELSE failed \cup {w.vote}
    /\ app' = IF build = "part_001" THEN [app EXCEPT !.submitting = FALSE] ELSE app
    /\ UNCHANGED <<build, localStorage, workerVars, rt>>

\* the POST of a vote answers or fails (part_000:135-138, part_001:481-486)
voteSettled(w, ok) ==
    /\ w \in awaiting
    /\ w.kind = "vote"
    /\ awaiting' = awaiting \ {w}
    /\ failed' = IF ok THEN failed ELSE failed \cup {w.vote}
    /\ app' = IF build = "part_001" THEN [app EXCEPT !.submitting = FALSE] ELSE app
    /\ UNCHANGED <<build, localStorage, posted, workerVars, rt>>

\* part_000:157-160, part_001:489-495
logout ==
    /\ ~Gate
    /\ IF build = "part_001"
       THEN /\ localStorage' = [localStorage EXCEPT !.token = <<>>, !.pid = <<>>]
            /\ app' = [app EXCEPT !.token = <<>>, !.participantId = <<>>]
       ELSE /\ localStorage' = [localStorage EXCEPT !.token = <<>>]
            /\ app' = [app EXCEPT !.token = <<>>]
    /\ UNCHANGED <<build, awaiting, posted, failed, workerVars, rt>>

(***************************************************************************)
(* ClientSpec: the survey page of either build, from an empty localStorage, *)
(* with every POST answered or failed; the worker is left out.             *)
(***************************************************************************)
ClientNext ==
    \/ Reload
    \/ startSurvey
    \/ \E ok \in BOOLEAN : startSettled(ok)
    \/ \E c \in {Components[i] : i \in 1..Len(Components)} : selectComponent(c)
    \/ \E p \in ParticipantIds : editParticipant(p)
    \/ \E preferred \in {"left", "right"} : vote(preferred)
    \/ \E w \in awaiting, ok \in BOOLEAN : voteSettled(w, ok)
    \/ logout

ClientSpecInit == ClientInit /\ WorkerInit({GoodRow}, 0, 0) /\ rt = [phase |-> "idle"]

ClientSpec == ClientSpecInit /\ [][ClientNext]_vars

(***************************************************************************)
(* Spec: the worker's routing and its access-code gate, with /api/start    *)
(* requests in flight together, on every row of Rows.                      *)
(***************************************************************************)
Init == WorkerInit(Rows, MaxStarts, MaxTicks) /\ rt = [phase |-> "idle"] /\ ClientIdle

Next ==
    \/ \E req \in RoutingRequests \cup StartRequests : fetch(req)
    \/ \E f \in BagToSet(inflight) : StartCheck(f)
    \/ \E f \in BagToSet(inflight) : StartFinish(f)
    \/ Tick(1)

Spec == Init /\ [][Next]_vars

(***************************************************************************)
(* VoteSpec: tokens issued by /api/start on a code without limits, then    *)
(* /api/vote with those tokens, what can be made of them, and the votes of  *)
(* the model, as the clock passes the tokens' expiry.                      *)
(***************************************************************************)
VoteMaxStarts == 1
VoteMaxTicks == 2

VoteInit ==
    WorkerInit({GoodRow}, VoteMaxStarts, VoteMaxTicks) /\ rt = [phase |-> "idle"] /\ ClientIdle

\* the clock is left alone until a token is out
VoteTick(d) == issued # {} /\ Tick(d)

VoteNext ==
    \/ StartSelect([origin |-> OriginGood, method |-> "POST", path |-> PathStart,
                    body |-> CodeBody])
    \/ \E f \in BagToSet(inflight) : StartCheck(f)
    \/ \E f \in BagToSet(inflight) : StartFinish(f)
    \/ \E req \in VoteRequests({i.token : i \in issued}) : Vote(req)
    \/ \E req \in VoteRequests({i.token : i \in issued}) : BodyThrows(req)
    \/ \E d \in {1, TwelveHours} : VoteTick(d)

VoteSpec == VoteInit /\ [][VoteNext]_vars

(***************************************************************************)
(* HandlerSpec: the whole handler on a code without limits, at one clock:  *)
(* the routing and /api/start requests, and /api/vote with the issued      *)
(* token or a bad one and votes that differ in their participant,          *)
(* component, preferred and in the required fields they lack.              *)
(***************************************************************************)
HandlerMaxStarts == 1

\* body.vote of the requests: participants "p" and "p__a", components "a" and
\* "a__a"; preferred as left, " TOP", "Right", "BOTTOM ", "up", " ", "l eft"
\* and 7; one or two required fields undefined, null or ""
HandlerVotes ==
    {[t |-> "object", f |-> f] :
        f \in {VoteFields(JNum(1), pref) :
                  pref \in {JStr(StrLeft), JStr(<<ChSpace, 84, 79, 80>>),
                            JStr(<<82>> \o Tail(StrRight)),
                            JStr(<<66, 79, 84, 84, 79, 77, ChSpace>>),
                            JStr(<<117, 112>>), JStr(<<ChSpace>>),
                            JStr(<<108, ChSpace, 101, 102, 116>>), JNum(7)}}
              \cup {[BaseFields EXCEPT !.participant_id = JStr(<<112, 95, 95, 97>>)],
                    [BaseFields EXCEPT !.component = JStr(<<97, 95, 95, 97>>)]}
              \cup {[BaseFields EXCEPT ![Required[i].k] = m] :
                       i \in 1..Len(Required), m \in {JUndef, JNull, JStr(<<>>)}}
              \cup {[BaseFields EXCEPT ![Required[i].k] = JNull, ![Required[j].k] = JUndef] :
                       i \in 1..Len(Required), j \in 1..Len(Required)}
              \cup {[BaseFields EXCEPT !.preferred = JStr(<<117, 112>>),
                                       ![Required[i].k] = JStr(<<>>)] :
                       i \in 1..Len(Required)}}
    \cup {[t |-> k, f |-> NoFields] : k \in {"undefined", "null", "falsy", "scalar"}}

\* the issued tokens with every vote; no token, "", 5, a token without its
\* signature and one signed with another key, with a full vote, a vote that
\* lacks a field, one of a preferred that is none and no vote; a body that is null
HandlerRequests(tokens) ==
    [origin : {OriginGood}, method : {"POST"}, path : {PathVote},
     body : {[EmptyBody EXCEPT !.token = JStr(t), !.vote = v] :
                t \in tokens, v \in HandlerVotes}
            \cup {[EmptyBody EXCEPT !.token = t, !.vote = v] :
                    t \in {JUndef, JStr(<<>>), JNum(5)}
                          \cup {JStr(Split(x, ChDot)[1]) : x \in tokens}
                          \cup {JStr(Split(x, ChDot)[1] \o <<ChDot>>
                                     \o hmacSign(OtherSecret, Split(x, ChDot)[1])) :
                                   x \in tokens},
                    v \in {[t |-> "object", f |-> BaseFields],
                           [t |-> "object", f |-> [BaseFields EXCEPT !.component = JNull]],
                           [t |-> "object",
                            f |-> [BaseFields EXCEPT !.preferred = JStr(<<117, 112>>)]],
                           NoVote}}
            \cup {[EmptyBody EXCEPT !.t = "null"]}]

HandlerInit ==
    WorkerInit({GoodRow}, HandlerMaxStarts, 0) /\ rt = [phase |-> "idle"] /\ ClientIdle

HandlerNext ==
    \/ \E req \in RoutingRequests \cup StartRequests : fetch(req)
    \/ \E req \in HandlerRequests({i.token : i \in issued}) : Vote(req)
    \/ \E req \in HandlerRequests({i.token : i \in issued}) : BodyThrows(req)
    \/ \E f \in BagToSet(inflight) : StartCheck(f)
    \/ \E f \in BagToSet(inflight) : StartFinish(f)

HandlerSpec == HandlerInit /\ [][HandlerNext]_vars

(***************************************************************************)
(* Token round trip: makeToken, verifyToken and b64Json/fromB64Json        *)
(* applied to payloads and clocks drawn from bounded sets.                 *)
(***************************************************************************)
MaxHashLen == 2

RECURSIVE StringsUpTo(_, _)
StringsUpTo(alphabet, n) ==
    IF n = 0 THEN {<<>>}
    ELSE LET shorter == StringsUpTo(alphabet, n - 1)
         IN  shorter \cup {Append(w, c) : w \in shorter, c \in alphabet}

RtTimes == {0, 9, 10, 11, TwelveHours + 10}
\* codeHash over the hex digits "0", "a", "f"
RtPayloads == [codeHash : StringsUpTo({48, 97, 102}, MaxHashLen), exp : {{}} \cup {{t} : t \in RtTimes}]

RtInit ==
    rt \in [phase : {"input"}, p : RtPayloads, secret : {TOKEN_SECRET, OtherSecret},
            at : RtTimes, token : {<<>>}, out : {TokenError("")},
            dec : {[ok |-> FALSE, payload |-> [codeHash |-> <<>>, exp |-> {}]]}]

RtMakeToken ==
    /\ rt.phase = "input"
    /\ rt' = [rt EXCEPT !.phase = "made", !.token = makeToken(rt.secret, rt.p)]
    /\ UNCHANGED <<workerVars, clientVars>>

RtVerifyToken ==
    /\ rt.phase = "made"
    /\ rt' = [rt EXCEPT !.phase = "verified",
                        !.out = verifyToken(rt.secret, rt.token, rt.at)]
    /\ UNCHANGED <<workerVars, clientVars>>

RtDecode ==
    /\ rt.phase = "input"
    /\ rt' = [rt EXCEPT !.phase = "decoded", !.dec = fromB64Json(b64Json(rt.p))]
    /\ UNCHANGED <<workerVars, clientVars>>

TokenInit == RtInit /\ WorkerInit({GoodRow}, 0, 0) /\ ClientIdle
TokenNext == RtMakeToken \/ RtVerifyToken \/ RtDecode
TokenSpec == TokenInit /\ [][TokenNext]_vars

(***************************************************************************)
(* Properties.                                                             *)
(***************************************************************************)

\* C1: for an access code seeded with uses_remaining = N, however the row
\* reads and the decrements of /api/start requests interleave, at most N
\* requests are answered 200 with a token.
C1_GrantsWithinUses ==
    \A h \in DOMAIN seeded : \A n \in seeded[h].uses_remaining : granted <= n

\* C2: /api/start answers 200 with a token only when the row read under the
\* hash of the trimmed code exists, is active, has uses_remaining null or
\* above 0 and an expires_at that is empty or not before the clock of the
\* check; every other outcome is an error and carries and issues no token.
C2_StartGate ==
    [][LET r == resp'
       IN  /\ (r.route = "start" /\ r.status = 200) =>
                 /\ r.token # <<>>
                 /\ r.codeIn \in {JStr(<<55>>), JStr(<<32, 55, 32>>), JNum(7)}
                 /\ \E d \in r.doc :
                        /\ d.active = 1
                        /\ d.active = seeded[KnownHash].active
                        /\ d.uses_remaining = {} \/ \E u \in d.uses_remaining : u > 0
                        /\ d.expires_at = seeded[KnownHash].expires_at
                        /\ \/ d.expires_at.t \in {"null", "empty"}
                           \/ d.expires_at.t = "date" /\ d.expires_at.ms >= r.checkedAt
           /\ (r.route = "start" /\ r.status # 200) =>
                 /\ r.token = <<>>
                 /\ r.threw \/ (r.status >= 400 /\ r.error # "")
           /\ (issued' # issued \/ granted' # granted) =>
                 /\ r.route = "start" /\ r.status = 200
                 /\ issued' = issued \cup {[token |-> r.token, at |-> nowMs]}
      ]_vars

\* a 200 for the code " 7 " on a row with one use left, checked at the very
\* millisecond of its expires_at
C2_Witness ==
    /\ resp.route = "start" /\ resp.status = 200 /\ resp.token # <<>>
    /\ resp.codeIn = JStr(<<32, 55, 32>>)
    /\ resp.checkedAt = StartMs + 1
    /\ \E d \in resp.doc :
           d.uses_remaining = {1} /\ d.expires_at = [t |-> "date", ms |-> StartMs + 1]

\* C3 as stated: on a request that carries a vote, a token whose signature
\* segment is not the HMAC of its body segment under TOKEN_SECRET (an empty
\* or missing segment included) is answered 403 and writes no vote.
C3_BadTokenAlways403 ==
    [][LET r == resp'
           parts == Split(r.tokenIn.s, ChDot)
           signed == /\ Len(parts) >= 2 /\ parts[1] # <<>> /\ parts[2] # <<>>
                     /\ parts[2] = hmacSign(TOKEN_SECRET, parts[1])
       IN  (/\ resp' # resp /\ r.route = "vote" /\ ~r.threw
            /\ r.tokenIn.t = "string" /\ r.voteIn.t \in {"object", "scalar"}
            /\ ~signed)
           => (r.status = 403 /\ votes' = votes)
      ]_vars

\* C3, amended: /api/vote writes a vote only under a token whose signature
\* segment is the HMAC of its body segment under TOKEN_SECRET; on a request
\* that carries a vote, a non-empty token failing that (a segment empty or
\* missing, the body or the signature altered) is answered 403, the empty
\* token 400 "Missing token or vote", and neither writes a vote.
C3_SignedTokenOnly ==
    [][LET r == resp'
           parts == Split(r.tokenIn.s, ChDot)
           signed == /\ Len(parts) >= 2 /\ parts[1] # <<>> /\ parts[2] # <<>>
                     /\ parts[2] = hmacSign(TOKEN_SECRET, parts[1])
       IN  /\ votes' # votes => (r.route = "vote" /\ r.tokenIn.t = "string" /\ signed)
           /\ (/\ resp' # resp /\ r.route = "vote" /\ ~r.threw
               /\ r.tokenIn.t = "string" /\ r.voteIn.t \in {"object", "scalar"}
               /\ ~signed)
              => /\ votes' = votes
                 /\ IF r.tokenIn.s = <<>>
                    THEN r.status = 400 /\ r.error = "Missing token or vote"
                    ELSE r.status = 403
                         /\ r.error \in {"Bad token format", "Bad token signature"}
      ]_vars

\* an issued token's body under another key's signature, sent with a full
\* vote to a table that holds votes: 403, and the table as it was
C3_Witness ==
    /\ resp.route = "vote" /\ resp.status = 403 /\ resp.error = "Bad token signature"
    /\ resp.voteIn \in ValidVotes
    /\ \E t \in {i.token : i \in issued} :
           resp.tokenIn = JStr(Split(t, ChDot)[1] \o <<ChDot>>
                               \o hmacSign(OtherSecret, Split(t, ChDot)[1]))
    /\ votes # {}

\* C4: the token of a 200 of /api/start carries exp = clock + 12 hours;
\* /api/vote with an issued token and a vote passes the token at every clock
\* up to exp (a full vote is stored with 200) and answers 403 "Token expired"
\* at every clock after exp, writing no row.
C4_TokenExpiry ==
    [][LET r == resp'
       IN  /\ granted' # granted =>
                 /\ fromB64Json(Split(r.token, ChDot)[1])
                        = [ok |-> TRUE,
                           payload |-> [codeHash |-> KnownHash,
                                        exp |-> {nowMs + TwelveHours}]]
                 /\ [token |-> r.token, at |-> nowMs] \in issued'
           /\ (/\ resp' # resp /\ r.route = "vote" /\ ~r.threw
               /\ r.tokenIn.t = "string" /\ r.voteIn.t \in {"object", "scalar"})
              => \A i \in issued :
                     i.token = r.tokenIn.s =>
                         IF nowMs <= i.at + TwelveHours
                         THEN /\ r.status # 403
                              /\ r.voteIn \in ValidVotes =>
                                     (r.status = 200 /\ r.row \in votes')
                         ELSE /\ r.status = 403 /\ r.error = "Token expired"
                              /\ votes' = votes
      ]_vars

\* a vote stored at the very millisecond of the token's exp
C4_Witness ==
    /\ resp.route = "vote" /\ resp.status = 200
    /\ resp.tokenIn.s \in {i.token : i \in issued}
    /\ resp.at = StartMs + TwelveHours
    /\ fromB64Json(Split(resp.tokenIn.s, ChDot)[1]).payload.exp = {resp.at}
    /\ resp.row \in votes

\* C5: for every payload p and secret, verifyToken(makeToken(p)) under the
\* same secret gives back p whenever p.exp is absent or not before the
\* clock, and fromB64Json(b64Json(p)) = p.
C5_TokenRoundTrip ==
    /\ rt.phase = "decoded" => (rt.dec.ok /\ rt.dec.payload = rt.p)
    /\ (rt.phase = "verified" /\ (rt.p.exp = {} \/ \A e \in rt.p.exp : e >= rt.at))
           => (rt.out.ok /\ rt.out.payload = rt.p)

\* a two-character hash and an exp equal to the clock, verified
C5_Witness ==
    /\ rt.phase = "verified" /\ rt.out.ok /\ rt.out.payload = rt.p
    /\ Len(rt.p.codeHash) = MaxHashLen
    /\ rt.p.exp = {rt.at} /\ rt.at > 0

\* C6: a vote with every required field, sent to /api/vote with an issued,
\* unexpired token, is answered 200 every time and leaves exactly one row
\* with id participant__component__trial, holding the vote's columns and
\* the clock as received_at, the other rows as they were; no two rows of
\* votes ever share an id.
C6_UpsertIdempotent ==
    [][LET r == resp'
           f == r.voteIn.f
           k == IF f.trial_id.t = "number" THEN f.trial_id.n ELSE 1
           id == <<112, 95, 95, 97, 95, 95, 48 + k>>
           expected ==
               [id |-> id, participant_id |-> <<112>>, component |-> <<97>>,
                trial_id |-> [nan |-> FALSE, n |-> k], left_method_id |-> <<109>>,
                right_method_id |-> <<110>>,
                preferred |-> IF f.preferred.s = StrLeft THEN "left" ELSE "right",
                timestamp_utc |-> <<116>>, user_agent |-> <<>>, page_url |-> <<>>,
                received_at |-> nowMs]
       IN  /\ \A r1, r2 \in votes' : r1.id = r2.id => r1 = r2
           /\ (/\ resp' # resp /\ r.route = "vote" /\ ~r.threw
               /\ r.tokenIn.t = "string" /\ r.tokenIn.s \in {i.token : i \in issued}
               /\ nowMs <= StartMs + TwelveHours
               /\ r.voteIn \in ValidVotes)
              => /\ r.status = 200
                 /\ {x \in votes' : x.id = id} = {expected}
                 /\ {x \in votes' : x.id # id} = {x \in votes : x.id # id}
      ]_vars

\* the same vote stored a second time, at a later clock: the row it replaces
\* differs in received_at alone
C6_Witness ==
    /\ resp.route = "vote" /\ resp.status = 200
    /\ resp.row \in votes
    /\ \E x \in resp.prior :
           /\ x.received_at < resp.row.received_at
           /\ [x EXCEPT !.received_at = 0] = [resp.row EXCEPT !.received_at = 0]
    /\ Cardinality({x \in votes : x.id = resp.row.id}) = 1

\* C7: a request whose Origin is absent or not in ALLOWED_ORIGINS reads and
\* writes nothing and gets no token: 403 "Origin not allowed" unless it is
\* an OPTIONS, which gets 204 without Access-Control-Allow-Origin; an
\* OPTIONS from an allowed origin gets 204 with the CORS headers.
C7_CorsAllowList ==
    [][LET r == resp'
           allowed == r.origin \in {<<103>>, <<104>>}
       IN  /\ (resp' # resp /\ ~allowed) =>
                 /\ UNCHANGED <<access_codes, votes, inflight, issued, granted, nreq>>
                 /\ r.token = <<>>
                 /\ IF r.method = "OPTIONS"
                    THEN r.status = 204 /\ r.acao = {}
                    ELSE r.status = 403 /\ r.error = "Origin not allowed"
           /\ (resp' # resp /\ allowed /\ r.method = "OPTIONS") =>
                 (r.status = 204 /\ r.acao = {r.origin})
           /\ \A g \in BagToSet(inflight') : g.origin \in {<<103>>, <<104>>}
           /\ (votes' # votes \/ access_codes' # access_codes \/ issued' # issued) => allowed
      ]_vars

\* a POST of /api/start from " g ", an entry of ALLOWED_ORIGINS only once
\* trimmed, refused while a request of an allowed origin is being served
C7_Witness ==
    /\ resp.route = "origin" /\ resp.status = 403 /\ resp.error = "Origin not allowed"
    /\ resp.origin = <<32, 103, 32>> /\ resp.method = "POST"
    /\ inflight # EmptyBag

\* C8: every request is answered, with a status among 200, 204, 400, 403,
\* 404, 405 and 500, and with a JSON body {error: string} when the status is
\* 400 or above; the handler never throws.
C8_AlwaysAnswered ==
    resp.route # "none" =>
        /\ ~resp.threw
        /\ resp.status \in {200, 204, 400, 403, 404, 405, 500}
        /\ resp.status >= 400 => resp.error # ""

\* C9: for every participant and component with a vote in the history, the
\* pair of nextPair, when there is one, is the method preferred in the vote
\* of highest trial_id, then a method that is in none of those votes.
C9_ChampionChallenger ==
    \A pid \in ParticipantIds \cup {StrUndefined}, c \in {Components[i] : i \in 1..Len(Components)} :
        LET h == app.history
            idx == {i \in 1..Len(h) : h[i].participant_id = pid /\ h[i].component = c}
            p == PairFor(build, pid, c, h)
        IN  (idx # {} /\ p # <<>>) =>
                LET latest == h[CHOOSE i \in idx : \A j \in idx : h[j].trial_id <= h[i].trial_id]
                IN  /\ Len(p) = 2
                    /\ p[1] = IF latest.preferred = "left" THEN latest.left_method_id
                              ELSE latest.right_method_id
                    /\ \A i \in idx : p[2] # h[i].left_method_id /\ p[2] # h[i].right_method_id

\* the later App.tsx after two votes of the participant on the component,
\* the second preferring its right method, with a pair still to show
C9_Witness ==
    /\ build = "part_001"
    /\ pair # <<>>
    /\ Len(RowsOf(app.participantId, app.activeComponent, app.history)) = 2
    /\ app.history[Len(app.history)].preferred = "right"
    /\ app.history[Len(app.history)].component = app.activeComponent

\* C10: the history grows only by the one record of a vote click, and with it
\* exactly one POST of that record; a record whose POST failed is still in
\* the history, was POSTed once and never again, and the pair for its
\* participant and component has moved on from the pair it judged, the page
\* free for the next click.
C10_SaveThenSubmitOnce ==
    [][/\ (app'.history # app.history \/ posted' # posted) =>
              /\ Len(posted') > 0
              /\ LET v == posted'[Len(posted')]
                 IN  /\ app'.history = Append(app.history, v)
                     /\ posted' = Append(posted, v)
                     /\ [kind |-> "vote", vote |-> v] \in awaiting'
       /\ \A v \in failed' :
              /\ Cardinality({i \in 1..Len(app'.history) : app'.history[i] = v}) = 1
              /\ Cardinality({i \in 1..Len(posted') : posted'[i] = v}) = 1
              /\ PairFor(build', v.participant_id, v.component, app'.history)
                     # <<v.left_method_id, v.right_method_id>>
       /\ failed' # failed => (build = "part_001" => ~app'.submitting)
      ]_vars

\* a vote whose POST failed, followed in the history by a vote on a later
\* pair of the same participant and component
C10_Witness ==
    \E v \in failed :
        /\ Len(app.history) >= 2
        /\ app.history[1] = v
        /\ app.history[2].participant_id = v.participant_id
        /\ app.history[2].component = v.component
        /\ <<app.history[2].left_method_id, app.history[2].right_method_id>>
               # <<v.left_method_id, v.right_method_id>>
        /\ Len(posted) = Len(app.history)

C12_TournamentEnds ==
    /\ \A pid \in ParticipantIds \cup {StrUndefined} :
           \A c \in {Components[i] : i \in 1..Len(Components)} :
               LET n == Len(methodIds(c))
                   k == Len(RowsOf(pid, c, app.history))
               IN  /\ n >= 2
                   /\ k <= n - 1
                   /\ (PairFor(build, pid, c, app.history) = <<>>) <=> (k = n - 1)
    /\ progress.seen <= progress.total
    /\ progress.total = Len(methodIds(app.activeComponent)) - 1

\* the component of four methods completed by three votes, the last one
\* preferring the challenger
C12_Witness ==
    /\ build = "part_001" /\ ~Gate
    /\ Len(methodIds(app.activeComponent)) = 4
    /\ progress = [seen |-> 3, total |-> 3]
    /\ pair = <<>>
    /\ app.history[3].preferred = "right" /\ app.history[1].preferred = "left"

\* C13: a vote stored by /api/vote replaces a row only of its own
\* (participant_id, component, trial_id): votes of different triples are
\* stored under different ids.
C13_IdPerTriple ==
    (resp.route = "vote" /\ resp.status = 200) =>
        \A x \in resp.prior :
            /\ x.participant_id = resp.row.participant_id
            /\ x.component = resp.row.component
            /\ x.trial_id = resp.row.trial_id

\* C14: the votes table changes only in a step answered 200 by /api/vote;
\* a 400 or 403 of /api/vote, and every step of /api/start, leaves it as it
\* was; a 200 of /api/vote leaves exactly one row under the id
\* participant__component__trial of the vote sent, the row of that vote, and
\* every row of another id as it was.
C14_VotesOnlyOn200 ==
    [][LET r == resp'
           f == r.voteIn.f
           id == f.participant_id.s \o <<95, 95>> \o f.component.s \o <<95, 95, 49>>
       IN  /\ votes' # votes => (r.route = "vote" /\ r.status = 200 /\ ~r.threw)
           /\ (r.route = "vote" /\ r.status \in {400, 403}) => votes' = votes
           /\ (inflight' # inflight \/ issued' # issued \/ r.route = "start")
                  => votes' = votes
           /\ (r.route = "vote" /\ r.status = 200) =>
                  /\ r.row.id = id
                  /\ r.row.participant_id = f.participant_id.s
                  /\ r.row.component = f.component.s
                  /\ {x \in votes' : x.id = id} = {r.row}
                  /\ {x \in votes' : x.id # id} = {x \in votes : x.id # id}
      ]_vars

\* a vote of a preferred that is none, sent with the issued token to a table
\* that holds a row of its id: 400, the table as it was
C14_Witness ==
    /\ resp.route = "vote" /\ resp.status = 400
    /\ resp.error = "preferred must be one of: left/right (or top/bottom)"
    /\ resp.tokenIn.s \in {i.token : i \in issued}
    /\ \E x \in votes : x.id = <<112, 95, 95, 97, 95, 95, 49>>
    /\ resp.voteIn.f.participant_id = JStr(<<112>>)
    /\ resp.voteIn.f.component = JStr(<<97>>)

\* C15: uses_remaining of every access code is null or at least 0 in every
\* state; a null one stays null; a step lowers a uses_remaining by at most 1
\* and only with a 200 of /api/start; the 200 of a request lowers it by
\* exactly 1 when no other request has reached the database, and also when
\* no other request is in flight and the row is still as the request read it.
C15_UsesRemainingBounds ==
    [][\A h \in DOMAIN access_codes :
           LET before == access_codes[h].uses_remaining
               after == access_codes'[h].uses_remaining
               r == resp'
               finished == BagToSet(inflight) \ BagToSet(inflight')
           IN  /\ \A u \in before \cup after : u >= 0
               /\ (before = {}) <=> (after = {})
               /\ (before = {}) <=> (seeded[h].uses_remaining = {})
               /\ \A u \in before : after = {u} \/ after = {u - 1}
               /\ after # before => (r.route = "start" /\ r.status = 200 /\ granted' = granted + 1)
               /\ (/\ granted' = granted + 1 /\ before # {}
                   /\ \/ nreq = 1
                      \/ /\ BagCardinality(inflight) = 1
                         /\ \A f \in finished : f.doc = {access_codes[h]})
                      => after = {u - 1 : u \in before}
      ]_vars

\* two requests granted on one use: the second UPDATE finds uses_remaining
\* at 0 and leaves it there
C15_Witness ==
    /\ resp.route = "start" /\ resp.status = 200
    /\ granted = 2
    /\ seeded[KnownHash].uses_remaining = {1}
    /\ access_codes[KnownHash].uses_remaining = {0}
    /\ resp.doc = {seeded[KnownHash]}

\* C16: a step in which /api/start answers with an error (Missing code,
\* Invalid code, Code inactive, Code has no remaining uses, Bad expires_at
\* format in DB, Code expired) leaves access_codes as it was and grants
\* nothing; access_codes changes only in the step of a 200, for a request
\* that has been through its checks.
C16_RejectedStartKeepsUses ==
    [][LET r == resp'
       IN  /\ (r.route = "start" /\ r.status # 200) =>
                  /\ access_codes' = access_codes
                  /\ granted' = granted /\ issued' = issued
           /\ (r.route = "start" /\ resp' # resp /\ ~r.threw /\ r.status # 200) =>
                  /\ r.error \in {"Missing code", "Invalid code", "Code inactive",
                                  "Code has no remaining uses",
                                  "Bad expires_at format in DB", "Code expired"}
                  /\ r.status = IF r.error = "Missing code" THEN 400
                                ELSE IF r.error = "Bad expires_at format in DB" THEN 500
                                ELSE 403
           /\ access_codes' # access_codes =>
                  /\ r.route = "start" /\ r.status = 200
                  /\ \E f \in BagToSet(inflight) :
                         /\ f.pc = "finish" /\ f.doc = r.doc /\ f.checkedAt = r.checkedAt
                         /\ BagToSet(inflight') = BagToSet(inflight (-) SetToBag({f}))
                  /\ \A h \in DOMAIN access_codes :
                         h # KnownHash => access_codes'[h] = access_codes[h]
      ]_vars

\* an expired code with two uses left, refused after one request was granted
\* on it: the uses are as the granted request left them
C16_Witness ==
    /\ resp.route = "start" /\ resp.status = 403 /\ resp.error = "Code expired"
    /\ granted = 1
    /\ seeded[KnownHash].uses_remaining = {2}
    /\ access_codes[KnownHash].uses_remaining = {1}
    /\ resp.doc = {access_codes[KnownHash]}

\* C17: the answer of /api/start is that of the first check that fails, in
\* the order: code empty once trimmed (400 Missing code, nothing read), no
\* row (403 Invalid code), active not 1 (403 Code inactive), uses_remaining
\* not null and at most 0 (403 Code has no remaining uses), expires_at
\* unparsable (500), expires_at before the clock (403 Code expired); 200
\* when none fails.
C17_StartCheckOrder ==
    (resp.route = "start" /\ ~resp.threw) =>
        LET expected ==
                IF resp.codeIn \in {JUndef, JNull, JStr(<<32>>), JNum(0)}
                THEN [status |-> 400, error |-> "Missing code"]
                ELSE IF resp.doc = {}
                THEN [status |-> 403, error |-> "Invalid code"]
                ELSE IF \E d \in resp.doc : d.active = 0
                THEN [status |-> 403, error |-> "Code inactive"]
                ELSE IF \E d \in resp.doc : d.uses_remaining = {0}
                THEN [status |-> 403, error |-> "Code has no remaining uses"]
                ELSE IF \E d \in resp.doc : d.expires_at.t = "bad"
                THEN [status |-> 500, error |-> "Bad expires_at format in DB"]
                ELSE IF \E d \in resp.doc :
                            d.expires_at.t = "date" /\ d.expires_at.ms < resp.checkedAt
                THEN [status |-> 403, error |-> "Code expired"]
                ELSE [status |-> 200, error |-> ""]
        IN  /\ resp.status = expected.status
            /\ resp.error = expected.error
            /\ resp.error = "Missing code" => (resp.doc = {} /\ ~resp.db)
            /\ resp.error = "Invalid code" => resp.codeIn = JStr(<<122>>)

\* a code that is both exhausted and expired: "Code has no remaining uses"
C17_Witness ==
    /\ resp.route = "start" /\ resp.status = 403
    /\ resp.error = "Code has no remaining uses"
    /\ \E d \in resp.doc :
           /\ d.active = 1 /\ d.uses_remaining = {0}
           /\ d.expires_at.t = "date" /\ d.expires_at.ms < resp.checkedAt

\* C18: the handler answers with the first check that fails, in the order:
\* OPTIONS (204), origin not allowed (403), method not POST (405), then the
\* path: /api/start, /api/vote, any other 404.  /api/vote in the order: token
\* or vote missing (400), token not valid (403), the first required field
\* missing among participant_id, component, trial_id, left_method_id,
\* right_method_id, preferred, timestamp_utc (400), preferred not valid
\* (400), else 200.
C18_HandlerCheckOrder ==
    [][/\ \A req \in {q \in RoutingRequests : resp'.voteIn = BodyVote(q.body)} :
              fetch(req) =>
                  LET r == resp'
                  IN  IF req.method = "OPTIONS" THEN r.route = "options" /\ r.status = 204
                      ELSE IF req.origin \notin {<<103>>, <<104>>}
                      THEN r.status = 403 /\ r.error = "Origin not allowed"
                      ELSE IF req.method # "POST"
                      THEN r.status = 405 /\ r.error = "Method not allowed"
                      ELSE IF req.path = PathStart
                      THEN resp' = resp /\ nreq' = nreq + 1 /\ inflight' # inflight
                      ELSE IF req.path = PathVote
                      THEN /\ r.route = "vote" /\ r.status = 400
                           /\ r.error = "Missing token or vote"
                      ELSE r.status = 404 /\ r.error = "Not found"
       /\ LET r == resp'
              f == r.voteIn.f
              order == <<"participant_id", "component", "trial_id", "left_method_id",
                         "right_method_id", "preferred", "timestamp_utc">>
              lacks(k) == f[k].t \in {"undefined", "null"} \/ f[k] = JStr(<<>>)
              expected ==
                  IF \/ r.tokenIn \in {JUndef, JStr(<<>>)}
                     \/ r.voteIn.t \in {"undefined", "null", "falsy"}
                  THEN [status |-> 400, errors |-> {"Missing token or vote"}]
                  ELSE IF r.tokenIn.t # "string" \/ \A i \in issued : i.token # r.tokenIn.s
                  THEN [status |-> 403,
                        errors |-> {"Bad token format", "Bad token signature"}]
                  ELSE IF \E i \in 1..7 : lacks(order[i])
                  THEN [status |-> 400,
                        errors |-> {Required[i].error :
                                      i \in {j \in 1..7 :
                                                /\ lacks(order[j])
                                                /\ \A m \in 1..(j - 1) : ~lacks(order[m])}}]
                  ELSE IF f.preferred \notin {JStr(StrLeft), JStr(<<32, 84, 79, 80>>),
                                              JStr(<<82, 105, 103, 104, 116>>),
                                              JStr(<<66, 79, 84, 84, 79, 77, 32>>)}
                  THEN [status |-> 400,
                        errors |-> {"preferred must be one of: left/right (or top/bottom)"}]
                  ELSE [status |-> 200, errors |-> {""}]
          IN  (r.route = "vote" /\ ~r.threw) =>
                  /\ r.status = expected.status
                  /\ r.error \in expected.errors
                  /\ \A i \in 1..7 : Required[i].k = order[i]
      ]_vars

\* a token signed with another key, sent with a vote that lacks its
\* component: 403
C18_Witness ==
    /\ resp.route = "vote" /\ resp.status = 403 /\ resp.error = "Bad token signature"
    /\ resp.voteIn.t = "object"
    /\ resp.voteIn.f.component = JNull
    /\ resp.voteIn.f.participant_id = JStr(<<112>>)
    /\ issued # {}

\* C19: every row of votes has preferred "left" or "right"; a vote that
\* passes the token and the required fields is stored with "left" when its
\* preferred is left or top, in any case and with spaces around it, with
\* "right" when it is right or bottom, and is otherwise answered 400 and
\* stores nothing.
C19_PreferredNormalised ==
    [][LET r == resp'
           sent == r.voteIn.f.preferred
           reached == /\ r.route = "vote" /\ ~r.threw
                      /\ r.status \in {200, 400}
                      /\ r.error \notin {"Missing token or vote"}
                             \cup {Required[i].error : i \in 1..Len(Required)}
       IN  /\ \A x \in votes' : x.preferred \in {"left", "right"}
           /\ reached =>
                  IF sent \in {JStr(<<108, 101, 102, 116>>), JStr(<<32, 84, 79, 80>>)}
                  THEN r.status = 200 /\ r.row.preferred = "left" /\ r.row \in votes'
                  ELSE IF sent \in {JStr(<<82, 105, 103, 104, 116>>),
                                    JStr(<<66, 79, 84, 84, 79, 77, 32>>)}
                  THEN r.status = 200 /\ r.row.preferred = "right" /\ r.row \in votes'
                  ELSE /\ r.status = 400
                       /\ r.error = "preferred must be one of: left/right (or top/bottom)"
                       /\ votes' = votes
      ]_vars

\* " TOP" stored as "left" over a row of the same id that held "right"
C19_Witness ==
    /\ resp.route = "vote" /\ resp.status = 200
    /\ resp.voteIn.f.preferred = JStr(<<32, 84, 79, 80>>)
    /\ resp.row.preferred = "left" /\ resp.row \in votes
    /\ \E x \in resp.prior : x.preferred = "right"

====
